---- MODULE Spec2Model ----
(***************************************************************************)
(* Model of daily-arXiv-ai-enhanced-RT:                                    *)
(*   - daily_arxiv/check_stats.py  (the deduplication engine and main)     *)
(*   - daily_arxiv/spiders/arxiv.py (the listing extractor, ArxivSpider)   *)
(***************************************************************************)
EXTENDS Integers, Sequences, FiniteSets, TLC

VARIABLES
    files,      \* the per-day stores ../data/<date>.jsonl, by age in days (0 = today)
    last,       \* what the latest run of main did (status, exit code, retained set)
    target_categories,  \* ArxivSpider.target_categories
    start_urls, \* ArxivSpider.start_urls, each by the category it lists
    seen_ids,   \* ArxivSpider.seen_ids
    next_url,   \* position in start_urls of the next page to be parsed
    emitted,    \* the items yielded so far, each with the sort keys it was ordered by
    skipped,    \* the "Skipped ..." debug lines of the latest parse call
    parse_raised \* whether the latest parse call raised

dedupVars == <<files, last>>
spiderVars == <<target_categories, start_urls, seen_ids, next_url, emitted, skipped, parse_raised>>
vars == <<files, last, target_categories, start_urls, seen_ids, next_url, emitted,
          skipped, parse_raised>>

(***************************************************************************)
(* Bounds of the model.                                                    *)
(***************************************************************************)
MaxLen == 2         \* longest store (in lines) drawn for today's file
MaxElems == 2       \* most h3/dl elements of a listing page

(***************************************************************************)
(* Values.                                                                 *)
(***************************************************************************)
None == "<none>"    \* a key the JSON object does not have (dict.get gives None)

Versions == {None, "v1", "v2"}
Sections == {None, "new", "repl", "Repl", "replacement"}

\* A line of a store, reduced to the fields check_stats.py reads. The first
\* paper comes in every version (untagged and as 'repl') and with every
\* section tag, the second as a bystander.
Papers ==
    [id : {"2401.00001"}, version : Versions, section : {None, "repl"}] \cup
    [id : {"2401.00001"}, version : {None}, section : Sections] \cup
    [id : {"2401.00002"}, version : {None}, section : {None, "repl"}]

\* check_stats.py:95
history_days == 7

\* Ages of the stores the model holds: today, the window, and one day past it.
Days == 0 .. (history_days + 1)
HistoryDays == 1 .. history_days

NoFile == [exists |-> FALSE, lines |-> <<>>]
FileOf(lines) == [exists |-> TRUE, lines |-> lines]

RECURSIVE SeqsUpTo(_, _)
SeqsUpTo(S, n) ==
    IF n = 0 THEN {<<>>}
    ELSE LET shorter == SeqsUpTo(S, n - 1)
         IN shorter \cup {Append(s, x) : s \in {t \in shorter : Len(t) = n - 1}, x \in S}

(***************************************************************************)
(* check_stats.py                                                          *)
(***************************************************************************)

\* str.lower() on the section tags of the model
Lower(s) == IF s = "Repl" THEN "repl" ELSE s

\* load_papers_data: a missing file and a read that raises both give []
load_papers_data(file, raises) ==
    IF ~file.exists THEN <<>>
    ELSE IF raises THEN <<>>
    ELSE file.lines

\* save_papers_data opening the file in append mode
save_papers_data_append(papers, file, raises, wrote) ==
    IF ~raises THEN [ok |-> TRUE, file |-> FileOf(file.lines \o papers)]
    ELSE [ok |-> FALSE, file |-> file]

\* save_papers_data: TRUE and the whole list written, or FALSE and whatever
\* the failed open/write left behind (wrote < 0: open failed, file untouched;
\* otherwise the first `wrote` lines reached the file)
save_papers_data(papers, file, raises, wrote) ==
    IF ~raises THEN [ok |-> TRUE, file |-> FileOf(papers)]
    ELSE IF wrote < 0 THEN [ok |-> FALSE, file |-> file]
    ELSE [ok |-> FALSE,
          file |-> FileOf(SubSeq(papers, 1, IF wrote > Len(papers) THEN Len(papers) ELSE wrote))]

\* key_of without the version: deduplication by id alone
key_of_id_only(paper) == <<paper.id, "v1">>

key_of(paper) ==
    <<paper.id, IF paper.version \in {None, ""} THEN "v1" ELSE paper.version>>

\* line 127: sec = (paper.get('section') or '').lower()
SectionOf(paper) == Lower(IF paper.section = None THEN "" ELSE paper.section)

\* line 131: the test that keeps a record unconditionally
IsRepl(paper) == SectionOf(paper) = "repl"

\* lines 109-115: the keys of every record loaded from the past history_days days
HistoryKeys(fs, window, raising) ==
    UNION { {key_of(load_papers_data(fs[d], d \in raising)[j]) :
                j \in 1 .. Len(load_papers_data(fs[d], d \in raising))} : d \in window }

\* lines 120-147: the positions (in today_papers) of the records appended to kept
RECURSIVE DedupLoop(_, _, _, _, _)
DedupLoop(today_papers, history_keys, i, kept, seen_today) ==
    IF i > Len(today_papers) THEN kept
    ELSE LET paper == today_papers[i]
             k == key_of(paper)
         IN IF IsRepl(paper)
              THEN DedupLoop(today_papers, history_keys, i + 1, Append(kept, i), seen_today)
            ELSE IF k \in seen_today
              THEN DedupLoop(today_papers, history_keys, i + 1, kept, seen_today)
            ELSE IF k \in history_keys
              THEN DedupLoop(today_papers, history_keys, i + 1, kept, seen_today \cup {k})
            ELSE DedupLoop(today_papers, history_keys, i + 1, Append(kept, i),
                           seen_today \cup {k})

KeptRecords(today_papers, kept) == [n \in 1 .. Len(kept) |-> today_papers[kept[n]]]

\* The result of a run that stopped before the loop.
EarlyReturn(fs, status) ==
    [status |-> status, files |-> fs, papers |-> <<>>, history_keys |-> {},
     kept |-> <<>>, looped |-> FALSE]

\* perform_deduplication, lines 93-174. The environment's part is given as
\* arguments: which reads raise, whether the write raises and how far it got,
\* whether os.remove raises. Stores are named by their age in days: the calls
\* of datetime.utcnow() within one run are taken to fall on the same UTC day.
perform_deduplication(fs, today_raises, hist_raising, write_raises, wrote, remove_raises) ==
    IF ~fs[0].exists THEN EarlyReturn(fs, "no_data")
    ELSE LET today_papers == load_papers_data(fs[0], today_raises)
         IN IF today_papers = <<>> THEN EarlyReturn(fs, "no_data")
            ELSE LET history_keys == HistoryKeys(fs, HistoryDays, hist_raising)
                     kept == DedupLoop(today_papers, history_keys, 1, <<>>, {})
                     records == KeptRecords(today_papers, kept)
                     saved == save_papers_data(records, fs[0], write_raises, wrote)
                 IN IF kept # <<>>
                      THEN [status |-> IF saved.ok THEN "has_new_content" ELSE "error",
                            files |-> [fs EXCEPT ![0] = saved.file],
                            papers |-> today_papers, history_keys |-> history_keys,
                            kept |-> kept, looped |-> TRUE]
                      ELSE [status |-> "no_new_content",
                            files |-> [fs EXCEPT ![0] = IF remove_raises THEN @ ELSE NoFile],
                            papers |-> today_papers, history_keys |-> history_keys,
                            kept |-> kept, looped |-> TRUE]

\* main letting the workflow continue when there is no data
ExitCode_no_data_continues(dedup_status) ==
    CASE dedup_status = "has_new_content" -> 0
      [] dedup_status = "no_new_content" -> 1
      [] dedup_status = "no_data" -> 0
      [] OTHER -> 2

\* main, lines 192-207: the exit code of each status
ExitCode(dedup_status) ==
    CASE dedup_status = "has_new_content" -> 0
      [] dedup_status = "no_new_content" -> 1
      [] dedup_status = "no_data" -> 1
      [] dedup_status = "error" -> 2
      [] OTHER -> 2

NotRun == [ran |-> FALSE]

\* The record of a run: its status and exit code, what it loaded and kept,
\* whether it found today's file, and which of its file operations raised (the "Error reading", "Error
\* saving" and "Failed to delete" lines on stderr).
RunRecord(r, found, raised) ==
    [ran |-> TRUE, found |-> found, status |-> r.status, exit_code |-> ExitCode(r.status),
     papers |-> r.papers, history_keys |-> r.history_keys, kept |-> r.kept,
     looped |-> r.looped, raised |-> raised]

\* What the environment can do to a run that reads `fs`: only the choices the
\* run gets to see are enumerated (a write cannot fail in a run that never
\* writes).
ReadsToday(fs) == fs[0].exists /\ fs[0].lines # <<>>
TodayFaults(fs) == IF ReadsToday(fs) THEN BOOLEAN ELSE {FALSE}
HistoryFaults(fs, today_raises) ==
    IF ReadsToday(fs) /\ ~today_raises
      THEN SUBSET {d \in HistoryDays : fs[d].exists /\ fs[d].lines # <<>>}
      ELSE {{}}
KeptOf(fs, today_raises, hist_raising) ==
    IF ReadsToday(fs) /\ ~today_raises
      THEN DedupLoop(fs[0].lines, HistoryKeys(fs, HistoryDays, hist_raising), 1, <<>>, {})
      ELSE <<>>
WriteFaults(kept) ==
    IF kept # <<>>
      THEN {<<FALSE, -1>>} \cup {<<TRUE, n>> : n \in -1 .. Len(kept)}
      ELSE {<<FALSE, -1>>}
RemoveFaults(fs, today_raises, kept) ==
    IF ReadsToday(fs) /\ ~today_raises /\ kept = <<>> THEN BOOLEAN ELSE {FALSE}

\* One run of the script: main() calls perform_deduplication() and exits.
Main ==
    \E today_raises \in TodayFaults(files) :
    \E hist_raising \in HistoryFaults(files, today_raises) :
    \E write \in WriteFaults(KeptOf(files, today_raises, hist_raising)) :
    \E remove_raises \in RemoveFaults(files, today_raises,
                                      KeptOf(files, today_raises, hist_raising)) :
        LET r == perform_deduplication(files, today_raises, hist_raising,
                                       write[1], write[2], remove_raises)
        IN /\ UNCHANGED spiderVars
           /\ files' = r.files
           /\ last' = RunRecord(r, files[0].exists,
                                [today |-> today_raises, history |-> hist_raising,
                                 write |-> write[1], remove |-> remove_raises])

(***************************************************************************)
(* spiders/arxiv.py                                                        *)
(***************************************************************************)

\* str.strip() on the pieces of the CATEGORIES value
Strip(c) ==
    CASE c = " math.QA" -> "math.QA"
      [] c = "math.RT " -> "math.RT"
      [] c = " " -> ""
      [] OTHER -> c

\* self.CAT_PRIORITY.get(c, 99), lines 25, 27 and 46
CAT_PRIORITY(c) ==
    CASE c = "math.QA" -> 0
      [] c = "math.RT" -> 1
      [] OTHER -> 99

\* list.sort(key=...): the stable sort of seq by the integer keys given for its
\* positions
StableSort(seq, keys) ==
    [n \in 1 .. Len(seq) |->
        seq[CHOOSE i \in 1 .. Len(seq) :
                Cardinality({j \in 1 .. Len(seq) :
                    keys[j] < keys[i] \/ (keys[j] = keys[i] /\ j < i)}) = n - 1]]

\* line 22: cats = [c.strip() for c in categories.split(",") if c.strip()]
NonBlank(c) == Strip(c) # ""
SplitCategories(pieces) ==
    LET kept == SelectSeq(pieces, NonBlank)
    IN [n \in 1 .. Len(kept) |-> Strip(kept[n])]

\* lines 22-27: the category list, sorted by priority
SortedCategories(pieces) ==
    LET cats == SplitCategories(pieces)
    IN StableSort(cats, [n \in 1 .. Len(cats) |-> CAT_PRIORITY(cats[n])])

\* order of the identifier strings of the model (str comparison)
IdRank(id) ==
    CASE id = "2401.00001" -> 1
      [] id = "2401.00002" -> 2

\* lines 76-86: the identifier in the entry's abstract link, None when the
\* entry has no such link or the link does not match /abs/NNNN.NNNNN
ArxivIdOf(href) ==
    CASE href = "/abs/2401.00001" -> "2401.00001"
      [] href = "/abs/2401.00002" -> "2401.00002"
      [] OTHER -> None

\* lines 93-94: the non-blank text nodes of .list-subjects, stripped
BlankText(t) == t \in {"", " "}
NotBlankText(t) == ~BlankText(t)
SubjectsText(subj_parts) == SelectSeq(subj_parts, NotBlankText)

\* lines 97-98: the codes \(([a-z\-]+\.[A-Z]{2})\) finds in a text node
CodeOf(t) ==
    CASE t = "Representation Theory (math.RT)" -> "math.RT"
      [] t = "Quantum Algebra (math.QA)" -> "math.QA"
      [] OTHER -> None

CategoriesInPaper(subjects_text) ==
    {CodeOf(subjects_text[n]) : n \in 1 .. Len(subjects_text)} \ {None}

\* lines 57-65: the rank of a heading
SectionRank(heading) ==
    CASE heading = "New submissions (showing 2 of 2 entries)" -> 0
      [] heading = "Cross submissions (showing 1 of 1 entries)" -> 1
      [] heading = "Replacement submissions (showing 1 of 1 entries)" -> 2
      [] OTHER -> 3

\* current_section_rank before any h3 was seen: the name is not bound
Unbound == 0 - 1

\* lines 75-145: one dt/dd pair. st is the state of the call: the current
\* section rank and the heading it came from, seen_ids, page_items, the debug
\* lines, and whether an exception has ended the call. An item carries, beside
\* its keys, the page, the source and the heading it was found under.
ParsePair(st, entry, source_cat, cat_priority, targets, page) ==
    LET arxiv_id == ArxivIdOf(entry.href)
        subjects_text == SubjectsText(entry.subjects)
        found == CategoriesInPaper(subjects_text)
        hit == (found \cap targets) # {}
        has_target == hit \/ source_cat \in targets
        paper_categories ==
            IF ~hit /\ source_cat \in targets /\ source_cat # ""
              THEN found \cup {source_cat} ELSE found
    IN IF st.raised THEN st
       ELSE IF arxiv_id = None THEN st
       ELSE IF arxiv_id \in st.seen THEN st
       ELSE IF has_target
         THEN IF st.rank = Unbound
                THEN [st EXCEPT !.seen = @ \cup {arxiv_id}, !.raised = TRUE]
                ELSE [st EXCEPT !.seen = @ \cup {arxiv_id},
                                !.items = Append(@,
                                    [id |-> arxiv_id, categories |-> paper_categories,
                                     cat_priority |-> cat_priority,
                                     section_rank |-> st.rank,
                                     page |-> page, source |-> source_cat,
                                     heading |-> st.heading])]
       ELSE IF subjects_text = <<>>
         THEN [st EXCEPT !.seen = @ \cup {arxiv_id},
                         !.items = Append(@,
                             [id |-> arxiv_id, categories |-> {},
                              cat_priority |-> cat_priority, section_rank |-> 3,
                              page |-> page, source |-> source_cat,
                              heading |-> st.heading])]
       ELSE [st EXCEPT !.skipped = @ \cup
                {[id |-> arxiv_id, categories |-> paper_categories]}]

\* line 74: for paper_dt, paper_dd in zip(dts, dds)
RECURSIVE ParsePairs(_, _, _, _, _, _, _)
ParsePairs(st, pairs, n, source_cat, cat_priority, targets, page) ==
    IF n > Len(pairs) THEN st
    ELSE ParsePairs(ParsePair(st, pairs[n], source_cat, cat_priority, targets, page),
                    pairs, n + 1, source_cat, cat_priority, targets, page)

\* lines 52-145: the loop over the h3 and dl children of #dlpage
RECURSIVE ParseSections(_, _, _, _, _, _, _)
ParseSections(st, body, n, source_cat, cat_priority, targets, page) ==
    IF n > Len(body) THEN st
    ELSE LET section == body[n]
             next == IF section.tag = "h3"
                       THEN [st EXCEPT !.rank = SectionRank(section.text),
                                       !.heading = section.text]
                       ELSE ParsePairs(st, section.pairs, 1, source_cat, cat_priority,
                                       targets, page)
         IN ParseSections(next, body, n + 1, source_cat, cat_priority, targets, page)

\* the three sorts with reverse=True left out of the first
SortPageItems_id_ascending(page_items) ==
    LET by_id == StableSort(page_items,
                    [n \in 1 .. Len(page_items) |-> IdRank(page_items[n].id)])
        by_section == StableSort(by_id,
                    [n \in 1 .. Len(by_id) |-> by_id[n].section_rank])
    IN StableSort(by_section,
                    [n \in 1 .. Len(by_section) |-> by_section[n].cat_priority])

\* lines 150-152: the three stable sorts of page_items
SortPageItems(page_items) ==
    LET by_id == StableSort(page_items,
                    [n \in 1 .. Len(page_items) |-> 0 - IdRank(page_items[n].id)])
        by_section == StableSort(by_id,
                    [n \in 1 .. Len(by_id) |-> by_id[n].section_rank])
    IN StableSort(by_section,
                    [n \in 1 .. Len(by_section) |-> by_section[n].cat_priority])

\* parse(response), lines 44-158. source_cat is what the pattern
\* /list/([^/]+)/new finds in response.url ("" when it does not match).
ParseResult(seen, targets, source_cat, body, page) ==
    LET st == ParseSections(
                [rank |-> Unbound, heading |-> None, seen |-> seen, items |-> <<>>,
                 skipped |-> {}, raised |-> FALSE],
                body, 1, source_cat, CAT_PRIORITY(source_cat), targets, page)
    IN [seen |-> st.seen, skipped |-> st.skipped, raised |-> st.raised,
        yielded |-> IF st.raised THEN <<>> ELSE SortPageItems(st.items)]

\* lines 114-118 and 155-158: the item as yielded has the keys id, abs, pdf and
\* categories; this is what a reader of its JSON line gets for the fields
\* check_stats.py asks for
StoredRecord(item) == [id |-> item.id, version |-> None, section |-> None]

\* The pages of the model.
Headings ==
    {"New submissions (showing 2 of 2 entries)",
     "Cross submissions (showing 1 of 1 entries)",
     "Replacement submissions (showing 1 of 1 entries)",
     "Other announcements"}

Absent == <<>>
InRT == <<"Representation Theory (math.RT)">>
Malformed == <<" ", "Mathematical Physics (math-ph)">>

Entry(href, subj_parts) == [href |-> href, subjects |-> subj_parts]

\* dt/dd pairs: two papers with and without a readable subject line, and an
\* entry whose link carries no new-style identifier
Entries ==
    {Entry("/abs/2401.00001", Absent), Entry("/abs/2401.00001", InRT),
     Entry("/abs/2401.00002", InRT), Entry("/abs/2401.00002", Malformed),
     Entry("/abs/math/0301001", InRT)}

\* dl blocks: one pair each, and two blocks of two pairs
Blocks ==
    {<<e>> : e \in Entries} \cup
    {<<Entry("/abs/2401.00001", InRT), Entry("/abs/2401.00002", InRT)>>,
     <<Entry("/abs/2401.00002", Absent), Entry("/abs/2401.00001", InRT)>>}

Elements ==
    {[tag |-> "h3", text |-> h, pairs |-> <<>>] : h \in Headings} \cup
    {[tag |-> "dl", text |-> "", pairs |-> b] : b \in Blocks}

Bodies == SeqsUpTo(Elements, MaxElems)

\* The values of the CATEGORIES environment variable, split at the commas.
CategoryLists ==
    {<<"math.RT">>, <<"math.RT ", " math.QA">>, <<"cs.CV", " ", "cs.AI">>}

\* One response reaches parse: the pages are fetched one at a time, in
\* start_urls order (CONCURRENT_REQUESTS = 1). response.url is the requested
\* URL, or after a redirect one the pattern of line 44 does not match.
Parse ==
    /\ next_url <= Len(start_urls)
    /\ \E body \in Bodies, source_cat \in {start_urls[next_url], ""} :
        LET r == ParseResult(seen_ids, target_categories, source_cat, body, next_url)
        IN /\ seen_ids' = r.seen
           /\ emitted' = emitted \o r.yielded
           /\ skipped' = r.skipped
           /\ parse_raised' = r.raised
    /\ next_url' = next_url + 1
    /\ UNCHANGED <<target_categories, start_urls>>
    /\ UNCHANGED dedupVars

\* __init__, lines 20-33
SpiderInit(pieces) ==
    /\ start_urls = SortedCategories(pieces)
    /\ target_categories = {SortedCategories(pieces)[n] : n \in 1 .. Len(SortedCategories(pieces))}
    /\ seen_ids = {}

SpiderIdle ==
    /\ start_urls = <<>>
    /\ target_categories = {}
    /\ seen_ids = {}
    /\ next_url = 1
    /\ emitted = <<>>
    /\ skipped = {}
    /\ parse_raised = FALSE

DedupIdle ==
    /\ files = [d \in Days |-> NoFile]
    /\ last = NotRun

InitSpider ==
    /\ \E pieces \in CategoryLists : SpiderInit(pieces)
    /\ next_url = 1
    /\ emitted = <<>>
    /\ skipped = {}
    /\ parse_raised = FALSE
    /\ DedupIdle

NextSpider == Parse

SpecSpider == InitSpider /\ [][NextSpider]_vars

\* History stores of the initial states: at most one day has a store, of one line.
HistoryStores ==
    {[d \in Days |-> NoFile]} \cup
    {[d \in Days |-> IF d = day THEN FileOf(<<p>>) ELSE NoFile] :
        day \in {1, history_days, history_days + 1},
        p \in {q \in Papers : q.id = "2401.00001" /\ q.version # "v1" /\ q.section = None}}

TodayStores == {NoFile} \cup {FileOf(s) : s \in SeqsUpTo(Papers, MaxLen)}

InitDedup ==
    /\ files \in {[h EXCEPT ![0] = t] : h \in HistoryStores, t \in TodayStores}
    /\ last = NotRun
    /\ SpiderIdle

NextDedup == Main

SpecDedup == InitDedup /\ [][NextDedup]_vars

(***************************************************************************)
(* Vocabulary of the claims about the deduplication engine. These restate  *)
(* the specification's notions on their own, without the operators above.  *)
(***************************************************************************)

\* key(record) = (id, version or "v1" when the version is absent)
ClaimKey(p) == <<p.id, IF p.version = None THEN "v1" ELSE p.version>>

\* the record's section tag is the replacement one ("repl" as check_stats.py
\* spells it, "replacement" as the specification does), whatever its case
ClaimReplacement(p) == p.section \in {"repl", "Repl", "replacement"}

\* the record is one the engine treats as a replacement
ClaimReplTagged(p) == p.section \in {"repl", "Repl"}

\* positions of today's sequence the run retained
KeptSet(run) == {run.kept[n] : n \in 1 .. Len(run.kept)}

\* the retained records, in order
Retained(run) == [n \in 1 .. Len(run.kept) |-> run.papers[run.kept[n]]]

\* keys of the records in the stores of the past seven days that the run
\* could read
WindowKeys(run) ==
    UNION { {ClaimKey(files[d].lines[j]) : j \in 1 .. Len(files[d].lines)} :
            d \in {e \in 1 .. 7 : files[e].exists /\ e \notin run.raised.history} }

\* a non-replacement record with the same key stands earlier in today's sequence
EarlierSameKey(run, i) ==
    \E j \in 1 .. (i - 1) :
        /\ ~ClaimReplTagged(run.papers[j])
        /\ ClaimKey(run.papers[j]) = ClaimKey(run.papers[i])

\* any record with the same key stands earlier in today's sequence
EarlierAnySameKey(run, i) ==
    \E j \in 1 .. (i - 1) : ClaimKey(run.papers[j]) = ClaimKey(run.papers[i])

(***************************************************************************)
(* C1                                                                      *)
(***************************************************************************)

\* what the spider yields for the entries of a page that lists them under a
\* Replacements heading, as the lines of the store hold them
ReplacementPage(e) ==
    <<[tag |-> "h3", text |-> "Replacement submissions (showing 1 of 1 entries)",
       pairs |-> <<>>],
      [tag |-> "dl", text |-> "", pairs |-> <<e>>]>>

ReplacementRecords ==
    {StoredRecord(ParseResult({}, {"math.RT"}, "math.RT", ReplacementPage(e), 1).yielded[1]) :
        e \in {x \in Entries :
                ParseResult({}, {"math.RT"}, "math.RT", ReplacementPage(x), 1).yielded # <<>>}}

\* C1: perform_deduplication never removes a record whose section is
\* replacement: every such record of today's sequence is among the retained
\* ones, also when its key is in history or occurs twice today; so is every
\* record the spider stored for an entry under a Replacements heading.
C1_ReplacementNeverRemoved ==
    (last.ran /\ last.looped) =>
        \A i \in 1 .. Len(last.papers) :
            (ClaimReplacement(last.papers[i]) \/ last.papers[i] \in ReplacementRecords)
                => i \in KeptSet(last)

(***************************************************************************)
(* C2                                                                      *)
(***************************************************************************)

\* C2 as stated: a non-replacement record is kept exactly when its key did not
\* occur earlier in today's sequence (in any record) and is not among the keys
\* of the past 7 days' stores the run loaded.
C2_KeptIffNewKey_Original ==
    (last.ran /\ last.looped) =>
        \A i \in 1 .. Len(last.papers) :
            ~ClaimReplTagged(last.papers[i]) =>
                (i \in KeptSet(last) <=>
                    /\ ~EarlierAnySameKey(last, i)
                    /\ ClaimKey(last.papers[i]) \notin WindowKeys(last))

\* C2 amended: a non-replacement record is kept exactly when its key did not
\* occur in an earlier non-replacement record of today's sequence and is not
\* among the keys of the past 7 days' stores the run loaded; replacement
\* records never enter the intra-day seen set.
C2_KeptIffNewKey ==
    (last.ran /\ last.looped) =>
        \A i \in 1 .. Len(last.papers) :
            ~ClaimReplTagged(last.papers[i]) =>
                (i \in KeptSet(last) <=>
                    /\ ~EarlierSameKey(last, i)
                    /\ ClaimKey(last.papers[i]) \notin WindowKeys(last))

\* C2's case: a non-replacement record is kept although a replacement record
\* with its key precedes it, a duplicate line is dropped, and a record whose id
\* is in history under another version only is kept.
C2_Witness ==
    /\ last.ran /\ last.looped
    /\ \E i \in 1 .. Len(last.papers) :
        /\ ~ClaimReplTagged(last.papers[i])
        /\ i \in KeptSet(last)
        /\ EarlierAnySameKey(last, i)
        /\ \E k \in WindowKeys(last) :
            k[1] = last.papers[i].id /\ k # ClaimKey(last.papers[i])

(***************************************************************************)
(* C3                                                                      *)
(***************************************************************************)

\* C3: whenever a read of today's store, a read of a history store or the
\* write of the retained set raises, the returned status is error.
C3_IOFailureIsError ==
    (last.ran /\ (last.raised.today \/ last.raised.history # {} \/ last.raised.write)) =>
        last.status = "error"

(***************************************************************************)
(* C4                                                                      *)
(***************************************************************************)

\* C4 as stated: no_new_content means today's file is gone; an empty retained
\* set of a non-empty store means the file is deleted and the status is
\* no_new_content; has_new_content means the file holds exactly the retained
\* set.
C4_StatusMatchesStore_Original ==
    last.ran =>
        /\ (last.status = "no_new_content" => ~files[0].exists)
        /\ ((last.looped /\ last.kept = <<>>) =>
                (~files[0].exists /\ last.status = "no_new_content"))
        /\ (last.status = "has_new_content" =>
                (files[0].exists /\ files[0].lines # <<>> /\ files[0].lines = Retained(last)))

\* C4 amended: no_new_content is returned exactly when a non-empty store has an
\* empty retained set; os.remove is then called, and today's file is gone
\* unless os.remove raised, in which case it is left as it was (the failure is
\* logged and the status stays no_new_content). has_new_content means the
\* file exists, is non-empty and holds exactly the retained set.
C4_StatusMatchesStore ==
    last.ran =>
        /\ (last.status = "no_new_content" <=> (last.looped /\ last.kept = <<>>))
        /\ (last.status = "no_new_content" =>
                IF last.raised.remove
                  THEN files[0].exists /\ files[0].lines = last.papers
                  ELSE ~files[0].exists)
        /\ (last.status = "has_new_content" =>
                (files[0].exists /\ files[0].lines # <<>> /\ files[0].lines = Retained(last)))

\* C4's case: every record of a non-empty store was a duplicate and os.remove
\* raised, so that no_new_content is returned with the file still there.
C4_Witness ==
    /\ last.ran /\ last.status = "no_new_content"
    /\ last.raised.remove /\ files[0].exists /\ files[0].lines # <<>>

(***************************************************************************)
(* C5                                                                      *)
(***************************************************************************)

\* C5: after a run that returned has_new_content, a second run over the
\* rewritten store retains exactly the records the first wrote and leaves the
\* store as it is. (Stated for second runs that read today's store and whose
\* write does not raise.)
C5_SecondRunRetainsAll ==
    [][(last.ran /\ last.status = "has_new_content"
            /\ last'.looped /\ ~last'.raised.write)
          => (Retained(last') = files[0].lines /\ files'[0] = files[0])]_vars

(***************************************************************************)
(* C9                                                                      *)
(***************************************************************************)

\* C9: every run of main ends with one of the four statuses and the exit code
\* it fixes: 0 iff has_new_content, 2 iff error, 1 iff no_new_content or
\* no_data; a run that finds no file for today returns no_data, exits 1 and
\* creates no file.
C9_ExitCodes ==
    last.ran =>
        /\ last.status \in {"has_new_content", "no_new_content", "no_data", "error"}
        /\ last.exit_code \in {0, 1, 2}
        /\ (last.exit_code = 0 <=> last.status = "has_new_content")
        /\ (last.exit_code = 2 <=> last.status = "error")
        /\ (last.exit_code = 1 <=> last.status \in {"no_new_content", "no_data"})
        /\ (~last.found =>
                (last.status = "no_data" /\ last.exit_code = 1 /\ ~files[0].exists))

\* C9's case: a run that found no file for today.
C9_Witness ==
    last.ran /\ ~last.found /\ last.status = "no_data" /\ last.exit_code = 1

(***************************************************************************)
(* Vocabulary of the claims about the spider.                              *)
(***************************************************************************)

\* source priority of a category: math.QA first, math.RT second, the rest last
ClaimPriority(c) == IF c = "math.QA" THEN 0 ELSE IF c = "math.RT" THEN 1 ELSE 99

\* section priority of a heading: new < cross < replacement < other
ClaimRank(heading) ==
    CASE heading = "New submissions (showing 2 of 2 entries)" -> 0
      [] heading = "Cross submissions (showing 1 of 1 entries)" -> 1
      [] heading = "Replacement submissions (showing 1 of 1 entries)" -> 2
      [] heading = "Other announcements" -> 3
      [] OTHER -> 0 - 1

\* identifiers as numbers, in the order of the identifier strings
ClaimIdOrder(id) == IF id = "2401.00001" THEN 1 ELSE 2

\* a <= b in the order (first ascending, second ascending, identifier descending)
ClaimKeyLeq(a1, a2, aid, b1, b2, bid) ==
    \/ a1 < b1
    \/ a1 = b1 /\ a2 < b2
    \/ a1 = b1 /\ a2 = b2 /\ ClaimIdOrder(aid) >= ClaimIdOrder(bid)

EmittedIds == {emitted[n].id : n \in 1 .. Len(emitted)}

\* every response so far came from the URL that was requested
NoRedirect ==
    \A n \in 1 .. Len(emitted) : emitted[n].source = start_urls[emitted[n].page]

(***************************************************************************)
(* C6                                                                      *)
(***************************************************************************)

\* C6 as stated: the concatenation of the records emitted by all parse calls
\* is sorted by (source priority ascending, section priority ascending,
\* identifier descending). (Stated for runs whose responses came from the
\* requested URLs.)
C6_OutputSorted_Original ==
    NoRedirect =>
        \A i, j \in 1 .. Len(emitted) :
            i < j => ClaimKeyLeq(emitted[i].cat_priority, emitted[i].section_rank,
                                 emitted[i].id,
                                 emitted[j].cat_priority, emitted[j].section_rank,
                                 emitted[j].id)

\* C6 amended: the concatenation is sorted by (position of the page in
\* start_urls ascending, section priority ascending, identifier descending),
\* and start_urls is in ascending source priority; so the records of a source
\* precede those of every source of higher priority, while the records of two
\* sources of equal priority (two categories outside CAT_PRIORITY) stay in
\* page order and are not merged by section.
C6_OutputSorted ==
    /\ \A i, j \in 1 .. Len(emitted) :
            i < j => ClaimKeyLeq(emitted[i].page, emitted[i].section_rank, emitted[i].id,
                                 emitted[j].page, emitted[j].section_rank, emitted[j].id)
    /\ \A p, q \in 1 .. Len(start_urls) :
            p < q => ClaimPriority(start_urls[p]) <= ClaimPriority(start_urls[q])
    /\ NoRedirect =>
            \A i, j \in 1 .. Len(emitted) :
                emitted[i].cat_priority < emitted[j].cat_priority => i < j

\* C6's case: two pages of equal source priority, fetched from the requested
\* URLs, whose records stay in page order although the second page's record
\* has the smaller section priority.
C6_Witness ==
    /\ NoRedirect
    /\ Len(emitted) = 2
    /\ emitted[1].page < emitted[2].page
    /\ emitted[1].cat_priority = emitted[2].cat_priority
    /\ emitted[1].section_rank > emitted[2].section_rank

(***************************************************************************)
(* C7                                                                      *)
(***************************************************************************)

\* C7: each identifier is emitted at most once over the run, and an identifier
\* is in seen_ids only when its record was emitted.
C7_EmittedOnce ==
    /\ \A i, j \in 1 .. Len(emitted) : emitted[i].id = emitted[j].id => i = j
    /\ seen_ids = EmittedIds

(***************************************************************************)
(* C8                                                                      *)
(***************************************************************************)

\* C8: an entry is dropped only when at least one category code was parsed
\* from its subject text and the parsed set does not meet the targets.
C8_DroppedOnlyOnParsedMismatch ==
    \A s \in skipped :
        s.categories # {} /\ s.categories \cap target_categories = {}

(***************************************************************************)
(* C10                                                                     *)
(***************************************************************************)

\* C10: parse completes on every page, also one whose first element is an
\* entry block, and the section rank of every emitted record is the rank of
\* the most recent heading before its block. (The rank is stated for the
\* records emitted with categories.)
C10_RankOfLatestHeading ==
    /\ ~parse_raised
    /\ \A n \in 1 .. Len(emitted) :
            emitted[n].categories # {} =>
                emitted[n].section_rank = ClaimRank(emitted[n].heading)

====
